---- MODULE Spec2Model ----
(***************************************************************************)
(* The snake game of nsnake.cpp (colour variant) and snake.cpp (monochrome *)
(* variant): the Game state, reset, spawnFruit and doTick, with the        *)
(* geometry helpers they rest on.  One behaviour runs one of the two       *)
(* programs; `program` says which.                                         *)
(***************************************************************************)
EXTENDS Integers, Sequences, FiniteSets

\* ---------------------------------------------------------------- bounds

\* main() sets board_size = {20, 20}; the model runs the same code on a
\* smaller board and stops the score at MaxScore.
Width == 2
Height == 5
MaxScore == 2

\* ------------------------------------------------------------- constants

\* enum class Direction of nsnake.cpp, by enumerator value.
Direction_up == 0
Direction_down == 1
Direction_left == 2
Direction_right == 3

\* The direction constants of snake.cpp.
up == 0
right == 1
down == 2
left == 3

\* The key codes of <cursesw.h> and the characters doTick compares with.
KEY_DOWN == 258
KEY_UP == 259
KEY_LEFT == 260
KEY_RIGHT == 261
KEY_ENTER == 343
CharLF == 10
CharCR == 13
\* getch() under nodelay() when no key is waiting.
KEY_NONE == -1

\* What getch() hands to doTick: main leaves the loop on the quit keys
\* before doTick sees them, and every key that is neither an arrow nor a
\* confirm key takes doTick through the same path as KEY_NONE.
Inputs ==
  {KEY_UP, KEY_RIGHT, KEY_DOWN, KEY_LEFT, KEY_ENTER, CharLF, CharCR, KEY_NONE}

DeadMessage == "You are dead. Press [Enter] to reset."

VARIABLES
  program,     \* "nsnake" or "snake": which source file's main() is running
  board_size,  \* Game::board_size
  alive,       \* Game::alive
  score,       \* Game::score
  snake,       \* Game::snake: [head |-> point, segments |-> sequence of segments]
  fruit,       \* Game::fruit
  message,     \* Game::message
  frame        \* the locals of the function that is running, its position
               \* (pc) among them

vars == <<program, board_size, alive, score, snake, fruit, message, frame>>

game == <<board_size, alive, score, snake, fruit, message>>

\* ------------------------------------------------- nsnake.cpp: geometry

Vector2(x, y) == [x |-> x, y |-> y]

VecAdd(a, b) == [x |-> a.x + b.x, y |-> a.y + b.y]

VecScale(a, scalar) == [x |-> a.x * scalar, y |-> a.y * scalar]

VecSub(a, b) == VecAdd(a, VecScale(b, -1))

Segment(direction, length) == [direction |-> direction, length |-> length]

InvalidDirection == "logic_error"

\* Direction operator-(Direction)
Negate(direction) ==
  CASE direction = Direction_up -> Direction_down
    [] direction = Direction_down -> Direction_up
    [] direction = Direction_left -> Direction_right
    [] direction = Direction_right -> Direction_left
    [] OTHER -> InvalidDirection

directionVector(direction) ==
  CASE direction = Direction_up -> Vector2(0, -1)
    [] direction = Direction_down -> Vector2(0, 1)
    [] direction = Direction_left -> Vector2(-1, 0)
    [] direction = Direction_right -> Vector2(1, 0)
    [] OTHER -> InvalidDirection

\* moveHead with the turn left out: the head goes on the way the front
\* segment points.
moveHead_noTurn(s, direction) ==
  LET front == Head(s.segments)
  IN [head |-> VecAdd(s.head, directionVector(front.direction)),
      segments |-> <<Segment(front.direction, front.length + 1)>> \o Tail(s.segments)]

\* moveHead with a new segment put in front on every move, turn or no turn.
moveHead_alwaysInsert(s, direction) ==
  [head |-> VecAdd(s.head, directionVector(direction)),
   segments |-> <<Segment(direction, 1)>> \o s.segments]

\* Snake::moveHead
moveHead(s, direction) ==
  LET segs == IF Head(s.segments).direction # direction
              THEN <<Segment(direction, 0)>> \o s.segments
              ELSE s.segments
      front == Head(segs)
  IN [head |-> VecAdd(s.head, directionVector(front.direction)),
      segments |-> <<Segment(front.direction, front.length + 1)>> \o Tail(segs)]

\* shrinkTail with the decrement left out of the final segment.
shrinkTail_noDecrement(s) ==
  LET n == Len(s.segments)
  IN [head |-> s.head,
      segments |-> IF s.segments[n].length <= 0
                   THEN SubSeq(s.segments, 1, n - 1) ELSE s.segments]

\* shrinkTail with the removal of an emptied final segment left out.
shrinkTail_noPop(s) ==
  LET n == Len(s.segments)
      back == s.segments[n]
  IN [head |-> s.head,
      segments |-> [s.segments EXCEPT ![n] = Segment(back.direction, back.length - 1)]]

\* Snake::shrinkTail
shrinkTail(s) ==
  LET n == Len(s.segments)
      back == s.segments[n]
      shrunk == [s.segments EXCEPT ![n] = Segment(back.direction, back.length - 1)]
  IN [head |-> s.head,
      segments |-> IF shrunk[n].length <= 0 THEN SubSeq(shrunk, 1, n - 1) ELSE shrunk]

\* pointOnLine with the far end of the line taken in.
pointOnLine_closedEnd(point, start, direction, length) ==
  LET diff == VecSub(point, start)
  IN CASE direction = Direction_up -> diff.x = 0 /\ -diff.y >= 0 /\ -diff.y <= length
       [] direction = Direction_down -> diff.x = 0 /\ diff.y >= 0 /\ diff.y <= length
       [] direction = Direction_left -> diff.y = 0 /\ -diff.x >= 0 /\ -diff.x <= length
       [] direction = Direction_right -> diff.y = 0 /\ diff.x >= 0 /\ diff.x <= length
       [] OTHER -> InvalidDirection

\* pointOnLine(point, Line{start, direction, length})
pointOnLine(point, start, direction, length) ==
  LET diff == VecSub(point, start)
  IN CASE direction = Direction_up -> diff.x = 0 /\ -diff.y >= 0 /\ -diff.y < length
       [] direction = Direction_down -> diff.x = 0 /\ diff.y >= 0 /\ diff.y < length
       [] direction = Direction_left -> diff.y = 0 /\ -diff.x >= 0 /\ -diff.x < length
       [] direction = Direction_right -> diff.y = 0 /\ diff.x >= 0 /\ diff.x < length
       [] OTHER -> InvalidDirection

\* pointInsideArea with the upper bounds off by one.
pointInsideArea_offByOne(point, area) ==
  point.x >= 0 /\ point.x <= area.x /\ point.y >= 0 /\ point.y <= area.y

pointInsideArea(point, area) ==
  point.x >= 0 /\ point.x < area.x /\ point.y >= 0 /\ point.y < area.y

\* The loop of pointCollidesWithSnake from segment i on, the cursor at `start`.
RECURSIVE collidesFrom(_, _, _, _, _)
collidesFrom(point, segments, i, start, check_head) ==
  IF i > Len(segments) THEN FALSE
  ELSE LET segment == segments[i]
       IN IF (check_head \/ i > 1)
             /\ pointOnLine(point, start, Negate(segment.direction), segment.length)
          THEN TRUE
          ELSE collidesFrom(point, segments, i + 1,
                 VecSub(start, VecScale(directionVector(segment.direction), segment.length)),
                 check_head)

pointCollidesWithSnake(point, s, check_head) ==
  collidesFrom(point, s.segments, 1, s.head, check_head)

\* snakeCollided with the head's own segment left in the check.
snakeCollided_withHead(s, field_size) ==
  pointCollidesWithSnake(s.head, s, TRUE) \/ ~pointInsideArea(s.head, field_size)

snakeCollided(s, field_size) ==
  pointCollidesWithSnake(s.head, s, FALSE) \/ ~pointInsideArea(s.head, field_size)

\* drawLine: the pixels written, in order, for a line of `length` from `start`.
RECURSIVE drawLine(_, _, _)
drawLine(start, direction, length) ==
  IF length <= 0 THEN <<>>
  ELSE <<start>> \o drawLine(VecAdd(start, directionVector(direction)), direction, length - 1)

\* drawSnake: the pixels written, in order, from the head backward.
RECURSIVE drawSnakeFrom(_, _, _)
drawSnakeFrom(segments, i, start) ==
  IF i > Len(segments) THEN <<>>
  ELSE LET segment == segments[i]
           back == Negate(segment.direction)
       IN drawLine(start, back, segment.length)
          \o drawSnakeFrom(segments, i + 1,
               VecAdd(start, VecScale(directionVector(back), segment.length)))

drawSnake(s) == drawSnakeFrom(s.segments, 1, s.head)

\* ---------------------------------------------------- nsnake.cpp: Game

\* The reset snake with its head on the board's origin instead of its centre.
resetSnake_atOrigin(size) ==
  [head |-> Vector2(0, 0), segments |-> <<Segment(Direction_up, 3)>>]

\* The snake Game::reset builds.
resetSnake(size) ==
  [head |-> Vector2(size.x \div 2, size.y \div 2),
   segments |-> <<Segment(Direction_up, 3)>>]

\* spawnFruit with the head's segment left out of the occupancy check.
spawnFruit_skipHead(size, s) ==
  {f \in {Vector2(i % size.x, i \div size.x) : i \in 0..(size.x * size.y - 1)} :
     ~pointCollidesWithSnake(f, s, FALSE)}

\* Game::spawnFruit: the cells the rejection loop can end on.
spawnFruit(size, s) ==
  {f \in {Vector2(i % size.x, i \div size.x) : i \in 0..(size.x * size.y - 1)} :
     ~pointCollidesWithSnake(f, s, TRUE)}

\* Game::reset
reset ==
  /\ alive' = TRUE
  /\ score' = 0
  /\ message' = ""
  /\ snake' = resetSnake(board_size)
  /\ fruit' \in spawnFruit(board_size, resetSnake(board_size))
  /\ UNCHANGED board_size

\* The confirm test with the two characters left out.
isConfirm_enterOnly(in) == in = KEY_ENTER

\* doTick's test for the confirm key.
isConfirm(in) == in = KEY_ENTER \/ in = CharLF \/ in = CharCR

\* The choice of direction without the about-turn check.
newDirection_noReject(in, front) ==
  CASE in = KEY_UP -> Direction_up
    [] in = KEY_RIGHT -> Direction_right
    [] in = KEY_DOWN -> Direction_down
    [] in = KEY_LEFT -> Direction_left
    [] OTHER -> front

\* doTick's choice of direction: the key's, unless it is an about-turn.
newDirection(in, front) ==
  LET keyed == CASE in = KEY_UP -> Direction_up
                 [] in = KEY_RIGHT -> Direction_right
                 [] in = KEY_DOWN -> Direction_down
                 [] in = KEY_LEFT -> Direction_left
                 [] OTHER -> front
  IN IF keyed = Negate(front) THEN front ELSE keyed

\* The end of the tick with the restore of old_snake left out.
finishTick_keepMoved(moved) ==
  /\ snake' = moved
  /\ IF snakeCollided(moved, board_size)
     THEN alive' = FALSE /\ message' = DeadMessage
     ELSE UNCHANGED <<alive, message>>

\* The collision check that ends an alive tick: `moved` is the snake after
\* moveHead and the fruit or shrinkTail branch.
finishTick(moved) ==
  IF snakeCollided(moved, board_size)
  THEN /\ snake' = snake
       /\ alive' = FALSE
       /\ message' = DeadMessage
  ELSE /\ snake' = moved
       /\ UNCHANGED <<alive, message>>

\* Game::doTick.  The fruit branch is cut off at MaxScore, the model's bound on
\* the score.
doTick(in) ==
  IF ~alive
  THEN IF isConfirm(in) THEN reset ELSE UNCHANGED game
  ELSE LET new_direction == newDirection(in, Head(snake.segments).direction)
           moved == moveHead(snake, new_direction)
       IN /\ UNCHANGED board_size
          /\ IF moved.head = fruit
             THEN /\ score < MaxScore
                  /\ score' = score + 1
                  /\ fruit' \in spawnFruit(board_size, moved)
                  /\ finishTick(moved)
             ELSE /\ UNCHANGED <<score, fruit>>
                  /\ finishTick(shrinkTail(moved))

\* ------------------------------------------------- snake.cpp: geometry

Point(x, y) == [x |-> x, y |-> y]

Size(width, height) == [width |-> width, height |-> height]

opposite(direction) ==
  CASE direction = up -> down
    [] direction = right -> left
    [] direction = down -> up
    [] direction = left -> right
    [] OTHER -> InvalidDirection

pointsEqual(a, b) == a.x = b.x /\ a.y = b.y

advance(point, direction, distance) ==
  CASE direction = up -> Point(point.x, point.y - distance)
    [] direction = right -> Point(point.x + distance, point.y)
    [] direction = down -> Point(point.x, point.y + distance)
    [] direction = left -> Point(point.x - distance, point.y)
    [] OTHER -> InvalidDirection

s_pointOnLine(point, line_start, line_direction, line_length) ==
  LET dx == point.x - line_start.x
      dy == point.y - line_start.y
  IN CASE line_direction = up -> dx = 0 /\ -dy >= 0 /\ -dy < line_length
       [] line_direction = down -> dx = 0 /\ dy >= 0 /\ dy < line_length
       [] line_direction = left -> dy = 0 /\ -dx >= 0 /\ -dx < line_length
       [] line_direction = right -> dy = 0 /\ dx >= 0 /\ dx < line_length
       [] OTHER -> InvalidDirection

s_pointInsideArea(point, area) ==
  point.x >= 0 /\ point.x < area.width /\ point.y >= 0 /\ point.y < area.height

\* The loop of snake.cpp's pointCollidesWithSnake from segment i on.
RECURSIVE s_collidesFrom(_, _, _, _, _)
s_collidesFrom(point, segments, i, start, check_head) ==
  IF i > Len(segments) THEN FALSE
  ELSE LET segment == segments[i]
       IN IF (check_head \/ i > 1)
             /\ s_pointOnLine(point, start, opposite(segment.direction), segment.length)
          THEN TRUE
          ELSE s_collidesFrom(point, segments, i + 1,
                 advance(start, opposite(segment.direction), segment.length), check_head)

s_pointCollidesWithSnake(point, s, check_head) ==
  s_collidesFrom(point, s.segments, 1, s.head, check_head)

\* snake.cpp's drawLine: the pixels written, in order.
RECURSIVE s_drawLine(_, _, _)
s_drawLine(start, direction, length) ==
  IF length <= 0 THEN <<>>
  ELSE <<start>> \o s_drawLine(advance(start, direction, 1), direction, length - 1)

\* snake.cpp's drawSnake: the pixels written, in order, from the head backward.
RECURSIVE s_drawSnakeFrom(_, _, _)
s_drawSnakeFrom(segments, i, start) ==
  IF i > Len(segments) THEN <<>>
  ELSE LET segment == segments[i]
       IN s_drawLine(start, opposite(segment.direction), segment.length)
          \o s_drawSnakeFrom(segments, i + 1,
               advance(start, opposite(segment.direction), segment.length))

s_drawSnake(s) == s_drawSnakeFrom(s.segments, 1, s.head)

moveSnakeHead(s, direction) ==
  LET segs == IF Head(s.segments).direction # direction
              THEN <<Segment(direction, 0)>> \o s.segments
              ELSE s.segments
      front == Head(segs)
  IN [head |-> advance(s.head, front.direction, 1),
      segments |-> <<Segment(front.direction, front.length + 1)>> \o Tail(segs)]

shrinkSnakeTail(s) ==
  LET n == Len(s.segments)
      back == s.segments[n]
      shrunk == [s.segments EXCEPT ![n] = Segment(back.direction, back.length - 1)]
  IN [head |-> s.head,
      segments |-> IF shrunk[n].length <= 0 THEN SubSeq(shrunk, 1, n - 1) ELSE shrunk]

s_snakeCollided(s, field_size) ==
  s_pointCollidesWithSnake(s.head, s, FALSE) \/ ~s_pointInsideArea(s.head, field_size)

\* ------------------------------------- snake.cpp: the thrown logic_error

\* Whether a call ends in `throw std::logic_error(...)` instead of a return.
\* The switch of opposite has a case for each of up, right, down, left; any
\* other value runs past it to the throw.
opposite_throws(direction) == direction \notin {up, right, down, left}

\* advance with `default: return result` in its switch.
advance_throws_never(direction) == FALSE

\* advance: the same switch and throw.
advance_throws(direction) == direction \notin {up, right, down, left}

\* pointOnLine: the same switch and throw.
pointOnLine_throws(line_direction) == line_direction \notin {up, down, left, right}

\* drawLine's loop from pass i on: every pass calls advance(point, direction).
RECURSIVE drawLine_throwsFrom(_, _, _)
drawLine_throwsFrom(i, direction, length) ==
  IF i < length
  THEN advance_throws(direction) \/ drawLine_throwsFrom(i + 1, direction, length)
  ELSE FALSE

drawLine_throws(direction, length) == drawLine_throwsFrom(0, direction, length)

\* drawSnake's loop from segment i on: opposite(segment.direction) is worked
\* out for drawLine's argument, then drawLine runs.
RECURSIVE drawSnake_throwsFrom(_, _)
drawSnake_throwsFrom(segments, i) ==
  IF i > Len(segments) THEN FALSE
  ELSE LET segment == segments[i]
       IN \/ opposite_throws(segment.direction)
          \/ drawLine_throws(opposite(segment.direction), segment.length)
          \/ drawSnake_throwsFrom(segments, i + 1)

drawSnake_throws(s) == drawSnake_throwsFrom(s.segments, 1)

\* pointCollidesWithSnake's loop from segment i on, the cursor at `start`:
\* the test is skipped for the first segment when check_head is false, a hit
\* returns at once, and the cursor is moved on with advance and opposite.
RECURSIVE pointCollidesWithSnake_throwsFrom(_, _, _, _, _)
pointCollidesWithSnake_throwsFrom(point, segments, i, start, check_head) ==
  IF i > Len(segments) THEN FALSE
  ELSE LET segment == segments[i]
           tested == check_head \/ i > 1
       IN IF tested /\ (\/ opposite_throws(segment.direction)
                        \/ pointOnLine_throws(opposite(segment.direction)))
          THEN TRUE
          ELSE IF tested /\ s_pointOnLine(point, start, opposite(segment.direction),
                                          segment.length)
          THEN FALSE
          ELSE IF \/ opposite_throws(segment.direction)
                  \/ advance_throws(opposite(segment.direction))
          THEN TRUE
          ELSE pointCollidesWithSnake_throwsFrom(point, segments, i + 1,
                 advance(start, opposite(segment.direction), segment.length),
                 check_head)

pointCollidesWithSnake_throws(point, s, check_head) ==
  pointCollidesWithSnake_throwsFrom(point, s.segments, 1, s.head, check_head)

\* moveSnakeHead: the segment for a new direction is inserted first, then
\* advance is called with the front segment's direction.
moveSnakeHead_throws(s, direction) ==
  LET segs == IF Head(s.segments).direction # direction
              THEN <<Segment(direction, 0)>> \o s.segments
              ELSE s.segments
  IN advance_throws(Head(segs).direction)

\* ---------------------------------------------------- snake.cpp: Game

\* The snake resetGame builds.
s_resetSnake(size) ==
  [head |-> Point(size.width \div 2, size.height \div 2),
   segments |-> <<Segment(up, 3)>>]

\* resetGame: it assigns alive, score, message and the snake, and nothing else.
resetGame ==
  /\ alive' = TRUE
  /\ score' = 0
  /\ message' = ""
  /\ snake' = s_resetSnake(board_size)
  /\ UNCHANGED <<fruit, board_size>>

\* snake.cpp's spawnFruit: the cells the rejection loop can end on.
s_spawnFruit(size, s) ==
  {f \in {Point(i % size.width, i \div size.width) : i \in 0..(size.width * size.height - 1)} :
     ~s_pointCollidesWithSnake(f, s, TRUE)}

s_isConfirm(in) == in = KEY_ENTER \/ in = CharLF \/ in = CharCR

s_newDirection(in, front) ==
  LET keyed == CASE in = KEY_UP -> up
                 [] in = KEY_RIGHT -> right
                 [] in = KEY_DOWN -> down
                 [] in = KEY_LEFT -> left
                 [] OTHER -> front
  IN IF keyed = opposite(front) THEN front ELSE keyed

s_finishTick(moved) ==
  IF s_snakeCollided(moved, board_size)
  THEN /\ snake' = snake
       /\ alive' = FALSE
       /\ message' = DeadMessage
  ELSE /\ snake' = moved
       /\ UNCHANGED <<alive, message>>

\* snake.cpp's doTick, the fruit branch cut off at MaxScore as above.
s_doTick(in) ==
  IF ~alive
  THEN IF s_isConfirm(in) THEN resetGame ELSE UNCHANGED game
  ELSE LET new_direction == s_newDirection(in, Head(snake.segments).direction)
           moved == moveSnakeHead(snake, new_direction)
       IN /\ UNCHANGED board_size
          /\ IF pointsEqual(moved.head, fruit)
             THEN /\ score < MaxScore
                  /\ score' = score + 1
                  /\ fruit' \in s_spawnFruit(board_size, moved)
                  /\ s_finishTick(moved)
             ELSE /\ UNCHANGED <<score, fruit>>
                  /\ s_finishTick(shrinkSnakeTail(moved))

\* Game::fruit is never assigned before snake.cpp's loop starts: its value is
\* whatever the stack held.  These are the values that behave differently: the
\* board's cells and the ring of cells around the board (a cell further out,
\* like a corner of the ring, is a fruit the head never lands on).
IndeterminatePoints(size) ==
  {Point(x, y) : x \in -1..size.width, y \in -1..size.height}

\* ------------------------------------------- snake.cpp: Field, printField

\* The block characters of snake.cpp, by code point.
upper_block == 9600
lower_block == 9604
full_block == 9608
empty_block == 32

\* makeField: size.width * size.height pixels, none set; data[k] of the
\* vector is the (k+1)-th element here.
makeField(size) ==
  [size |-> size, data |-> [k \in 1..(size.width * size.height) |-> FALSE]]

getPixel(field, location) ==
  field.data[location.y * field.size.width + location.x + 1]

drawPixel(field, location, value) ==
  [field EXCEPT !.data[location.y * field.size.width + location.x + 1] = value]

\* The choice of block with upper and lower changing places.
blockFor_swapped(top, bottom) ==
  IF top /\ bottom THEN full_block
  ELSE IF top THEN lower_block
  ELSE IF bottom THEN upper_block
  ELSE empty_block

\* printField's choice of block for a character cell:
\* top && bottom ? full_block : top ? upper_block : bottom ? lower_block : empty_block
blockFor(top, bottom) ==
  IF top /\ bottom THEN full_block
  ELSE IF top THEN upper_block
  ELSE IF bottom THEN lower_block
  ELSE empty_block

\* printField: the characters written, row by row; row r of the screen is the
\* loop's pass i = 2 * (r - 1), column c its pass j = c - 1.
printField(field) ==
  [r \in 1..((field.size.height + 1) \div 2) |->
     [c \in 1..field.size.width |->
        LET i == 2 * (r - 1)
            j == c - 1
            top == getPixel(field, Point(j, i))
            bottom == i + 1 < field.size.height /\ getPixel(field, Point(j, i + 1))
        IN blockFor(top, bottom)]]

\* ------------------------------------------------ the render sequence

\* The colours of nsnake.cpp's enum Color that main draws with.
Color_black == 0
Color_yellow == 3
Color_white == 7

\* Field(size) of nsnake.cpp: size.x * size.y pixels, all black; data_[k] of
\* the vector is the (k+1)-th element here.
Field(size) ==
  [size |-> size, data |-> [k \in 1..(size.x * size.y) |-> Color_black]]

\* Field::pixel(location): data_[y * size_.x + x].
pixel(field, location) ==
  field.data[location.y * field.size.x + location.x + 1]

\* Whether pixel(location) names an element of data_; outside it the
\* reference is past the vector and a write through it is undefined.
pixelInData(field, location) ==
  location.y * field.size.x + location.x + 1 \in DOMAIN field.data

\* Field::clear(), the colour left at its default.
clear(field) ==
  [field EXCEPT !.data = [k \in DOMAIN field.data |-> Color_black]]

drawPoint(field, location, color) ==
  [field EXCEPT !.data[location.y * field.size.x + location.x + 1] = color]

\* The writes of nsnake.cpp's drawLine and drawSnake, pixel after pixel:
\* field.pixel(point) = Color::white.
RECURSIVE drawWhite(_, _)
drawWhite(field, pixels) ==
  IF pixels = <<>> THEN field
  ELSE drawWhite(drawPoint(field, Head(pixels), Color_white), Tail(pixels))

\* clearField of snake.cpp.
clearField(field) ==
  [field EXCEPT !.data = [k \in DOMAIN field.data |-> FALSE]]

\* Whether drawPixel(location) writes an element of data; outside it the
\* write is past the vector and undefined.
drawPixelInData(field, location) ==
  location.y * field.size.width + location.x + 1 \in DOMAIN field.data

\* The writes of snake.cpp's drawLine and drawSnake, pixel after pixel:
\* drawPixel(field, point, true).
RECURSIVE drawPixels(_, _)
drawPixels(field, pixels) ==
  IF pixels = <<>> THEN field
  ELSE drawPixels(drawPixel(field, Head(pixels), TRUE), Tail(pixels))

\* ------------------------------------------------- main: the tick interval

\* The interval with the division done before the sum.
tickInterval_divideFirst(s) == 10000 \div 40 + s

\* The milliseconds main sleeps for before a tick, in either program:
\* 10000 / (40 + game.score), a division of ints.
tickInterval(s) == 10000 \div (40 + s)

\* ------------------------------------------------------- specification

\* main() inside its while (true) loop, between two turns.
MainLoop == [pc |-> "loop"]

\* main() of nsnake.cpp up to the loop: board_size = {20, 20}, then reset.
InitNsnake ==
  /\ program = "nsnake"
  /\ board_size = Vector2(Width, Height)
  /\ alive = TRUE
  /\ score = 0
  /\ message = ""
  /\ snake = resetSnake(board_size)
  /\ fruit \in spawnFruit(board_size, snake)
  /\ frame = MainLoop

\* main() of snake.cpp up to the loop: board_size = {20, 20}, then resetGame.
InitSnake ==
  /\ program = "snake"
  /\ board_size = Size(Width, Height)
  /\ alive = TRUE
  /\ score = 0
  /\ message = ""
  /\ snake = s_resetSnake(board_size)
  /\ fruit \in IndeterminatePoints(board_size)
  /\ frame = MainLoop

Init == InitNsnake \/ InitSnake

\* One turn of main's loop in nsnake.cpp: getch, then doTick.
NsnakeTick ==
  /\ program = "nsnake"
  /\ \E in \in Inputs : doTick(in)
  /\ UNCHANGED <<program, frame>>

\* One turn of main's loop in snake.cpp: getch, then doTick.
SnakeTick ==
  /\ program = "snake"
  /\ \E in \in Inputs : s_doTick(in)
  /\ UNCHANGED <<program, frame>>

Next == NsnakeTick \/ SnakeTick

Spec == Init /\ [][Next]_vars

\* ------------------------------------------------------------- claims

\* The step is the tick of the running program on key `in`.
Tick(in) ==
  \/ program = "nsnake" /\ doTick(in)
  \/ program = "snake" /\ s_doTick(in)

InBoard(p) == p.x \in 0..(Width - 1) /\ p.y \in 0..(Height - 1)

\* The cells of a snake, from the head backward.
Cells(s) == IF program = "nsnake" THEN drawSnake(s) ELSE s_drawSnake(s)

CellSet(s) == LET cells == Cells(s) IN {cells[k] : k \in 1..Len(cells)}

RECURSIVE SumLengths(_)
SumLengths(segments) ==
  IF segments = <<>> THEN 0 ELSE Head(segments).length + SumLengths(Tail(segments))

TotalLength(s) == SumLengths(s.segments)

\* The unit vector an arrow key stands for.
KeyVector(in) ==
  CASE in = KEY_UP -> [x |-> 0, y |-> -1]
    [] in = KEY_DOWN -> [x |-> 0, y |-> 1]
    [] in = KEY_LEFT -> [x |-> -1, y |-> 0]
    [] in = KEY_RIGHT -> [x |-> 1, y |-> 0]

IsArrow(in) == in \in {KEY_UP, KEY_DOWN, KEY_LEFT, KEY_RIGHT}

\* The unit vector of the front segment's direction.
FrontVector(s) ==
  IF program = "nsnake"
  THEN directionVector(Head(s.segments).direction)
  ELSE advance([x |-> 0, y |-> 0], Head(s.segments).direction, 1)

\* The vector the head is to move by on key `in`: the key's, unless the key is
\* no arrow or is the about-turn of the front segment.
ChosenVector(in) ==
  IF IsArrow(in) /\ KeyVector(in) # VecScale(FrontVector(snake), -1)
  THEN KeyVector(in)
  ELSE FrontVector(snake)

\* The cell the head moves to on key `in`.
MovedHead(in) == VecAdd(snake.head, ChosenVector(in))

\* C1: in nsnake.cpp, whenever the game is alive the head is inside the board
\* and is none of the other cells of the snake.
C1_AliveHeadLegal ==
  (program = "nsnake" /\ alive) =>
    LET cells == Cells(snake)
    IN /\ InBoard(snake.head)
       /\ \A k \in 2..Len(cells) : cells[k] # snake.head

\* An alive game of nsnake.cpp after two fruits, the snake bent twice and its
\* head on the left edge of the board.
C1_Witness ==
  /\ program = "nsnake"
  /\ alive
  /\ score = 2
  /\ Len(snake.segments) >= 3
  /\ snake.head.x = 0

\* C2: in nsnake.cpp the fruit is always a cell of the board that the snake
\* does not occupy, whether the game is alive or dead.
C2_FruitFree ==
  program = "nsnake" => InBoard(fruit) /\ fruit \notin CellSet(snake)

\* A dead game of nsnake.cpp in which a fruit has been eaten and respawned.
C2_Witness == program = "nsnake" /\ ~alive /\ score >= 1

\* C3: a tick that turns alive from true to false leaves the snake, the score
\* and the fruit as they were; only alive and message change.
C3_DeathTickFrame ==
  [][(alive /\ ~alive') =>
       /\ snake' = snake
       /\ score' = score
       /\ fruit' = fruit
       /\ board_size' = board_size]_vars

\* C4: in nsnake.cpp the sum of the segment lengths is always score + 3, and a
\* tick that leaves the score alone leaves that sum alone.
C4_LengthIsScorePlus3 ==
  /\ (program = "nsnake" => TotalLength(snake) = score + 3)
  /\ [][program = "nsnake" =>
          /\ TotalLength(snake') = score' + 3
          /\ (score' = score => TotalLength(snake') = TotalLength(snake))]_vars

\* A game of nsnake.cpp that has eaten two fruits and has died since.
C4_Witness == program = "nsnake" /\ score = 2 /\ ~alive /\ Len(snake.segments) >= 2

\* C5: an alive tick whose moved head lands on the fruit ends alive, with the
\* score and the sum of the segment lengths each one higher.
C5_EatGrows ==
  [][alive =>
       \A in \in Inputs :
         (MovedHead(in) = fruit /\ Tick(in)) =>
           /\ alive'
           /\ score' = score + 1
           /\ TotalLength(snake') = TotalLength(snake) + 1]_vars

ConfirmKeys == {KEY_ENTER, CharLF, CharCR}

\* The cells behind the moved head once the tick's fruit or shrink branch has
\* run: the snake's cells, less its last one unless the head lands on the fruit.
CellsBehind(in) ==
  IF MovedHead(in) = fruit
  THEN CellSet(snake)
  ELSE LET cells == Cells(snake) IN {cells[k] : k \in 1..(Len(cells) - 1)}

\* The moved head is off the board or on a cell of the body.
HeadBlocked(in) == ~InBoard(MovedHead(in)) \/ MovedHead(in) \in CellsBehind(in)

\* The direction an arrow key stands for in nsnake.cpp.
KeyDirection(in) ==
  CASE in = KEY_UP -> Direction_up
    [] in = KEY_DOWN -> Direction_down
    [] in = KEY_LEFT -> Direction_left
    [] in = KEY_RIGHT -> Direction_right

\* The key asks for no turn, or for the about-turn of the front segment.
KeepsDirection(in) ==
  ~IsArrow(in) \/ KeyVector(in) = VecScale(FrontVector(snake), -1)

\* What an alive tick of nsnake.cpp on key `in` is to do, D being the front
\* segment's direction: die only if the move by the chosen vector is blocked;
\* if it survives, leave the head one cell on by that vector and the front
\* segment in the chosen direction; and leave the front segment's direction D
\* when the key is no arrow or the about-turn of D.
DirectionEffect(in) ==
  LET D == Head(snake.segments).direction
      chosen == IF KeepsDirection(in) THEN D ELSE KeyDirection(in)
  IN /\ alive' \/ HeadBlocked(in)
     /\ alive' => /\ snake'.head = VecAdd(snake.head, ChosenVector(in))
                  /\ Head(snake'.segments).direction = chosen
     /\ KeepsDirection(in) => Head(snake'.segments).direction = D

\* C6: on an alive tick of nsnake.cpp the head is moved in the arrow key's
\* direction unless the key is no arrow or the about-turn of the front
\* segment's direction D, and then in D; an about-turn or unrecognised key
\* leaves the front segment's direction D, and a surviving tick puts the head
\* one cell on in the chosen direction.
C6_DirectionChoice ==
  [][(program = "nsnake" /\ alive) =>
       \A in \in Inputs : DirectionEffect(in) \/ ~doTick(in)]_vars

\* An alive game of nsnake.cpp whose snake has turned twice and grown: its
\* front segment points down, so KEY_UP is the about-turn.
C6_Witness ==
  /\ program = "nsnake"
  /\ alive
  /\ score >= 1
  /\ Head(snake.segments).direction = Direction_down
  /\ Head(snake.segments).length >= 2

\* What Game::reset leaves behind.
ResetPost ==
  /\ alive
  /\ score = 0
  /\ message = ""
  /\ snake.segments = <<[direction |-> Direction_up, length |-> 3]>>
  /\ snake.head = [x |-> Width \div 2, y |-> Height \div 2]
  /\ InBoard(fruit)
  /\ \A k \in 0..2 : fruit # [x |-> Width \div 2, y |-> (Height \div 2) + k]

\* C7: in nsnake.cpp, reset (at start-up and on a confirm key in the dead
\* state) leaves alive true, score 0, an empty message, the snake [{up,3}] with
\* its head at the board's centre, and the fruit on the board and off the
\* snake's three cells.
C7_ResetResult ==
  /\ (program = "nsnake" => ResetPost)
  /\ [][(program = "nsnake" /\ ~alive) =>
          \A in \in ConfirmKeys : ResetPost' \/ ~doTick(in)]_vars

\* A dead game of nsnake.cpp with a score and a bent snake, from which a
\* confirm key resets.
C7_Witness ==
  /\ program = "nsnake"
  /\ ~alive
  /\ score >= 1
  /\ Len(snake.segments) >= 3
  /\ message = DeadMessage

\* C8: in snake.cpp, after every reset (at start-up and on a confirm key in
\* the dead state) the fruit is a cell of the board that the re-initialised
\* snake does not occupy.
C8_ResetSpawnsFruit ==
  /\ (program = "snake" => (InBoard(fruit) /\ fruit \notin CellSet(snake)))
  /\ [][(program = "snake" /\ ~alive) =>
          \A in \in ConfirmKeys :
            (InBoard(fruit') /\ fruit' \notin CellSet(snake')) \/ ~s_doTick(in)]_vars

\* The snake either program's reset builds.
InitialSnake ==
  [head |-> [x |-> Width \div 2, y |-> Height \div 2],
   segments |-> <<[direction |-> 0, length |-> 3]>>]

\* What a dead-state tick on key `in` is to do.
DeadTickEffect(in) ==
  IF in \in ConfirmKeys
  THEN /\ alive'
       /\ score' = 0
       /\ message' = ""
       /\ snake' = InitialSnake
       /\ board_size' = board_size
  ELSE UNCHANGED game

\* C9: in the dead state a tick on any key but a confirm key changes nothing
\* of the game; on a confirm key it resets and the game is alive again.  No
\* outcome of a dead-state tick is anything else.
C9_DeadTick ==
  ~alive => \A in \in Inputs : ~ENABLED (Tick(in) /\ ~DeadTickEffect(in))

\* A dead game with two fruits eaten and the snake away from the centre.
C9_Witness ==
  /\ ~alive
  /\ score = 2
  /\ snake.head # InitialSnake.head
  /\ message = DeadMessage

\* C10: alive goes from true to false only on a tick whose moved head is off
\* the board or on a body cell, and from false to true only on a tick on a
\* confirm key; no step changes alive otherwise.
C10_AliveChanges ==
  [][(alive # alive') =>
       \A in \in Inputs :
         \/ IF alive THEN HeadBlocked(in) ELSE in \in ConfirmKeys
         \/ ~Tick(in)]_vars

\* A dead game of nsnake.cpp whose snake, the one from before the fatal tick,
\* has a key that moves its head onto a cell of its own body on the board.
C10_Witness ==
  /\ program = "nsnake"
  /\ ~alive
  /\ \E in \in Inputs :
       InBoard(MovedHead(in)) /\ MovedHead(in) \in CellsBehind(in)

\* C13: after reset and after every completed doTick, in either program, the
\* segment list is not empty, every segment is at least one cell long and
\* every segment's direction is one of the four values of the direction type
\* (so no switch over a direction falls through to its throw).
C13_SegmentsWellFormed ==
  /\ Len(snake.segments) >= 1
  /\ \A k \in 1..Len(snake.segments) :
       /\ snake.segments[k].length >= 1
       /\ snake.segments[k].direction \in
            (IF program = "nsnake"
             THEN {Direction_up, Direction_down, Direction_left, Direction_right}
             ELSE {up, right, down, left})

\* An alive game just after a turn, the new front segment one cell long and
\* the final segment down to its last cell.
C13_Witness ==
  /\ alive
  /\ Len(snake.segments) >= 3
  /\ Head(snake.segments).length = 1
  /\ snake.segments[Len(snake.segments)].length = 1

\* C14: in every reachable state of nsnake.cpp the cells traced from the head
\* backward are as many as the sum of the segment lengths, are pairwise
\* distinct, and each is orthogonally adjacent to the next.
C14_BodyIsPath ==
  program = "nsnake" =>
    LET cells == drawSnake(snake)
    IN /\ Len(cells) = TotalLength(snake)
       /\ \A i, j \in 1..Len(cells) : i < j => cells[i] # cells[j]
       /\ \A k \in 1..(Len(cells) - 1) :
            LET d == VecSub(cells[k + 1], cells[k])
            IN d.x * d.x + d.y * d.y = 1

\* A game of nsnake.cpp whose snake has grown to five cells and bends twice.
C14_Witness ==
  /\ program = "nsnake"
  /\ TotalLength(snake) = 5
  /\ Len(snake.segments) = 3

\* Two directions at a right angle: neither the same nor each other's
\* opposite, in the program's own numbering.
Perpendicular(a, b) ==
  IF program = "nsnake" THEN a # b /\ a # Negate(b)
  ELSE a # b /\ a # opposite(b)

\* C22: in every reachable state any two consecutive segments of the snake
\* point at a right angle to each other: never the same way and never
\* opposite ways.
C22_ConsecutivePerpendicular ==
  \A i \in 1..(Len(snake.segments) - 1) :
    Perpendicular(snake.segments[i].direction, snake.segments[i + 1].direction)

\* A snake of nsnake.cpp that has turned twice the same way round: its front
\* segment points against its third segment, with a segment across between.
C22_Witness ==
  /\ program = "nsnake"
  /\ alive
  /\ Len(snake.segments) >= 3
  /\ snake.segments[1].direction = Negate(snake.segments[3].direction)

\* ----------------------------------- the scripted run on main()'s board

\* main(): game.board_size = {20, 20}.
BoardSide == 20

\* The keys getch() hands over in the scripted run, in order.
RightRightRight == <<KEY_RIGHT, KEY_RIGHT, KEY_RIGHT>>

\* main() of nsnake.cpp up to the loop, on main's own board, with the keys
\* that are to come.
Init20 ==
  /\ program = "nsnake"
  /\ board_size = Vector2(BoardSide, BoardSide)
  /\ alive = TRUE
  /\ score = 0
  /\ message = ""
  /\ snake = resetSnake(board_size)
  /\ fruit \in spawnFruit(board_size, snake)
  /\ frame = [pc |-> "loop", keys |-> RightRightRight]

\* One turn of main's loop, getch() handing over the next key of the script.
ScriptedTick ==
  /\ frame.keys # <<>>
  /\ doTick(Head(frame.keys))
  /\ frame' = [frame EXCEPT !.keys = Tail(@)]
  /\ UNCHANGED program

Next20 == ScriptedTick

Spec20 == Init20 /\ [][Next20]_vars

\* The cell three to the right of the reset head.
ThreeRight == Vector2(BoardSide \div 2 + Len(RightRightRight), BoardSide \div 2)

\* The cells the head crosses in the scripted run.
RightPath ==
  {Vector2(BoardSide \div 2 + k, BoardSide \div 2) : k \in 1..Len(RightRightRight)}

\* C11 as stated: on the 20x20 board, from the reset state and whatever fruit
\* reset chose, the keys right, right, right leave the game alive, the head at
\* (13,10), the total length 3 and the score 0.
C11_ThreeRights ==
  frame.keys = <<>> =>
    /\ alive
    /\ snake.head = ThreeRight
    /\ TotalLength(snake) = 3
    /\ score = 0

\* C11, amended: the keys right, right, right leave the game alive with the
\* head at (13,10) and the total length at score + 3; the total length is
\* still 3 and the score still 0 when the fruit reset chose is none of the
\* cells (11,10), (12,10), (13,10) the head crosses.
C11_ThreeRightsOffFruit ==
  /\ [](frame.keys = <<>> =>
          /\ alive
          /\ snake.head = ThreeRight
          /\ TotalLength(snake) = score + 3)
  /\ (fruit \notin RightPath =>
        [](frame.keys = <<>> => (score = 0 /\ TotalLength(snake) = 3)))

\* The scripted run at its end, no fruit met: the snake lies along row 10.
C11_Witness ==
  /\ frame.keys = <<>>
  /\ score = 0
  /\ snake.segments = <<Segment(Direction_right, 3)>>

\* ------------------------------------------ the helpers called by hand

\* The bounds on the arguments the helper functions are called with: the
\* number of segments of a snake, the length of a segment or line, and the
\* distance of a point from the origin along either axis.
MaxSegments == 2
MaxSegmentLength == 2
PointRange == 2

\* No Game object takes part in a call of a helper function.
NoGame ==
  /\ board_size = Vector2(0, 0)
  /\ alive = FALSE
  /\ score = 0
  /\ snake = [head |-> Vector2(0, 0), segments |-> <<>>]
  /\ fruit = Vector2(0, 0)
  /\ message = ""

\* The points a helper is called with (Vector2 and Point are alike).
Points == {Vector2(x, y) : x \in -PointRange..PointRange, y \in -PointRange..PointRange}

\* The four values of the direction type; they are 0..3 in both programs.
Directions == {Direction_up, Direction_down, Direction_left, Direction_right}

\* The segment lists a snake is called with: as in the game, not empty and
\* every segment at least one cell long.
SegmentListsOf(segments, length) ==
  UNION {[1..n -> {Segment(d, l) : d \in Directions, l \in 1..length}] :
           n \in 1..segments}

SegmentLists == SegmentListsOf(MaxSegments, MaxSegmentLength)

\* A call of pointCollidesWithSnake(point, snake, check_head) about to be made.
InitCollides ==
  /\ program \in {"nsnake", "snake"}
  /\ NoGame
  /\ \E p \in Points, segs \in SegmentLists, c \in BOOLEAN :
       frame = [pc |-> "call", point |-> p,
                snake |-> [head |-> Vector2(0, 0), segments |-> segs],
                check_head |-> c]

\* The call returns.
CallPointCollidesWithSnake ==
  /\ frame.pc = "call"
  /\ frame' = [pc |-> "return", point |-> frame.point, snake |-> frame.snake,
               check_head |-> frame.check_head,
               result |-> IF program = "nsnake"
                          THEN pointCollidesWithSnake(frame.point, frame.snake, frame.check_head)
                          ELSE s_pointCollidesWithSnake(frame.point, frame.snake, frame.check_head)]
  /\ UNCHANGED <<program, game>>

NextCollides == CallPointCollidesWithSnake

SpecCollides == InitCollides /\ [][NextCollides]_vars

\* C12: pointCollidesWithSnake(p, snake, true) is true iff p is one of the
\* cells traced from the head backward, and pointCollidesWithSnake(p, snake,
\* false) is true iff p is one of the traced cells after the first, the head's.
C12_CollidesIffTraced ==
  frame.pc = "return" =>
    LET cells == Cells(frame.snake)
        first == IF frame.check_head THEN 1 ELSE 2
    IN frame.result <=> (\E k \in first..Len(cells) : cells[k] = frame.point)

\* A call of pointOnLine(point, line) about to be made, the line of any
\* length from 0 on.
InitLine ==
  /\ program \in {"nsnake", "snake"}
  /\ NoGame
  /\ \E p \in Points, o \in Points, d \in Directions, l \in 0..(MaxSegmentLength + 1) :
       frame = [pc |-> "call", point |-> p, start |-> o, direction |-> d, length |-> l]

\* The call returns.
CallPointOnLine ==
  /\ frame.pc = "call"
  /\ frame' = [pc |-> "return", point |-> frame.point, start |-> frame.start,
               direction |-> frame.direction, length |-> frame.length,
               result |-> IF program = "nsnake"
                          THEN pointOnLine(frame.point, frame.start,
                                           frame.direction, frame.length)
                          ELSE s_pointOnLine(frame.point, frame.start,
                                             frame.direction, frame.length)]
  /\ UNCHANGED <<program, game>>

NextLine == CallPointOnLine

SpecLine == InitLine /\ [][NextLine]_vars

\* The unit vector of a direction, by the direction's name in either program.
Unit(d) ==
  IF program = "nsnake"
  THEN CASE d = Direction_up -> [x |-> 0, y |-> -1]
         [] d = Direction_down -> [x |-> 0, y |-> 1]
         [] d = Direction_left -> [x |-> -1, y |-> 0]
         [] d = Direction_right -> [x |-> 1, y |-> 0]
  ELSE CASE d = up -> [x |-> 0, y |-> -1]
         [] d = down -> [x |-> 0, y |-> 1]
         [] d = left -> [x |-> -1, y |-> 0]
         [] d = right -> [x |-> 1, y |-> 0]

\* C16: pointOnLine(point, origin, direction, length) is true iff point is
\* origin + k * unit(direction) for some k with 0 <= k < length, in each of
\* the four directions and in both programs; it is false for length 0.
C16_PointOnLine ==
  frame.pc = "return" =>
    /\ frame.result <=>
         \E k \in 0..(frame.length - 1) :
           frame.point = VecAdd(frame.start, VecScale(Unit(frame.direction), k))
    /\ frame.length = 0 => ~frame.result

\* pointOnLine has said yes to the last cell of a line to the left, a cell
\* that is not the line's origin.
C16_Witness ==
  /\ frame.pc = "return"
  /\ frame.result
  /\ Unit(frame.direction) = [x |-> -1, y |-> 0]
  /\ frame.point = VecAdd(frame.start, VecScale(Unit(frame.direction), frame.length - 1))
  /\ frame.point # frame.start

\* ------------------------------- snake.cpp's helpers, a direction amiss

\* Values of the int a direction is held in that are none of up, right,
\* down, left: the one below and the one above them.
BadDirections == {up - 1, left + 1}

\* Segment lists as above in which a direction is amiss.
BadSegmentLists ==
  {segs \in UNION {[1..n -> {Segment(d, l) : d \in Directions \cup BadDirections,
                                              l \in 1..MaxSegmentLength}] :
                     n \in 1..MaxSegments} :
     \E k \in 1..Len(segs) : segs[k].direction \in BadDirections}

\* A call of one of snake.cpp's helpers about to be made, a direction amiss
\* in its arguments.
InitDirs ==
  /\ program = "snake"
  /\ NoGame
  /\ \/ \E d \in BadDirections :
          frame = [pc |-> "call", fn |-> "opposite", direction |-> d]
     \/ \E d \in BadDirections, p \in Points, n \in 0..MaxSegmentLength :
          frame = [pc |-> "call", fn |-> "advance", point |-> p, direction |-> d,
                   distance |-> n]
     \/ \E d \in BadDirections, p \in Points, n \in 0..MaxSegmentLength :
          frame = [pc |-> "call", fn |-> "pointOnLine", point |-> p,
                   line_start |-> Point(0, 0), line_direction |-> d, line_length |-> n]
     \/ \E d \in BadDirections, p \in Points, n \in 0..MaxSegmentLength :
          frame = [pc |-> "call", fn |-> "drawLine", start |-> p, direction |-> d,
                   length |-> n]
     \/ \E segs \in BadSegmentLists :
          frame = [pc |-> "call", fn |-> "drawSnake",
                   snake |-> [head |-> Point(0, 0), segments |-> segs]]
     \/ \E segs \in BadSegmentLists, p \in Points, c \in BOOLEAN :
          frame = [pc |-> "call", fn |-> "pointCollidesWithSnake", point |-> p,
                   snake |-> [head |-> Point(0, 0), segments |-> segs],
                   check_head |-> c]
     \/ \E segs \in SegmentLists, d \in BadDirections :
          frame = [pc |-> "call", fn |-> "moveSnakeHead",
                   snake |-> [head |-> Point(0, 0), segments |-> segs],
                   direction |-> d]

\* The call has ended: in a return, or in the thrown logic_error.
Ended(threw) ==
  /\ frame' = [frame EXCEPT !.pc = IF threw THEN InvalidDirection ELSE "return"]
  /\ UNCHANGED <<program, game>>

CallOpposite ==
  /\ frame.pc = "call" /\ frame.fn = "opposite"
  /\ Ended(opposite_throws(frame.direction))

CallAdvance ==
  /\ frame.pc = "call" /\ frame.fn = "advance"
  /\ Ended(advance_throws(frame.direction))

CallSnakePointOnLine ==
  /\ frame.pc = "call" /\ frame.fn = "pointOnLine"
  /\ Ended(pointOnLine_throws(frame.line_direction))

CallDrawLine ==
  /\ frame.pc = "call" /\ frame.fn = "drawLine"
  /\ Ended(drawLine_throws(frame.direction, frame.length))

CallDrawSnake ==
  /\ frame.pc = "call" /\ frame.fn = "drawSnake"
  /\ Ended(drawSnake_throws(frame.snake))

CallSnakePointCollidesWithSnake ==
  /\ frame.pc = "call" /\ frame.fn = "pointCollidesWithSnake"
  /\ Ended(pointCollidesWithSnake_throws(frame.point, frame.snake, frame.check_head))

CallMoveSnakeHead ==
  /\ frame.pc = "call" /\ frame.fn = "moveSnakeHead"
  /\ Ended(moveSnakeHead_throws(frame.snake, frame.direction))

NextDirs ==
  \/ CallOpposite
  \/ CallAdvance
  \/ CallSnakePointOnLine
  \/ CallDrawLine
  \/ CallDrawSnake
  \/ CallSnakePointCollidesWithSnake
  \/ CallMoveSnakeHead

SpecDirs == InitDirs /\ [][NextDirs]_vars

\* C17 as stated: every one of opposite, advance, pointOnLine, drawLine,
\* drawSnake, pointCollidesWithSnake and moveSnakeHead of snake.cpp, given a
\* direction that is none of up, right, down, left, ends in the logic error.
C17_AllThrow == frame.pc # "call" => frame.pc = InvalidDirection

\* The segments in front of the first one whose direction is amiss.
BeforeBad(s) ==
  LET bad == {k \in 1..Len(s.segments) : s.segments[k].direction \in BadDirections}
      first == CHOOSE k \in bad : \A j \in bad : k <= j
  IN [head |-> s.head, segments |-> SubSeq(s.segments, 1, first - 1)]

\* C17, amended: given a direction that is none of up, right, down, left,
\* opposite, advance, pointOnLine, drawSnake and moveSnakeHead end in the
\* logic error; drawLine does so when its length is above 0 and returns its
\* start otherwise; pointCollidesWithSnake does so unless it finds the point
\* on a segment in front of the first one whose direction is amiss, and then
\* it returns true.
C17_ThrowWhenReached ==
  frame.pc # "call" =>
    CASE frame.fn = "drawLine" ->
           (frame.pc = InvalidDirection) <=> (frame.length > 0)
      [] frame.fn = "pointCollidesWithSnake" ->
           (frame.pc = InvalidDirection) <=>
             ~s_pointCollidesWithSnake(frame.point, BeforeBad(frame.snake),
                                       frame.check_head)
      [] OTHER -> frame.pc = InvalidDirection

\* pointCollidesWithSnake has thrown on a snake whose second segment is the
\* one amiss, the point not being on the first.
C17_Witness ==
  /\ frame.pc = InvalidDirection
  /\ frame.fn = "pointCollidesWithSnake"
  /\ frame.check_head
  /\ Len(frame.snake.segments) = 2
  /\ Head(frame.snake.segments).direction \in Directions

\* ------------------------------------------- snake.cpp's printField

\* The widest and the highest field printField is called on.
FieldWidth == 2
FieldHeight == 3

\* The field with the pixels of `cells` set by drawPixel, one by one.
RECURSIVE DrawCells(_, _)
DrawCells(field, cells) ==
  IF cells = {} THEN field
  ELSE LET cell == CHOOSE c \in cells : TRUE
       IN DrawCells(drawPixel(field, cell, TRUE), cells \ {cell})

\* A call of printField about to be made, on a field of any size up to
\* FieldWidth by FieldHeight with any of its pixels set.
InitPrint ==
  /\ program = "snake"
  /\ NoGame
  /\ \E w \in 1..FieldWidth, h \in 1..FieldHeight :
       \E cells \in SUBSET {Point(x, y) : x \in 0..(w - 1), y \in 0..(h - 1)} :
         frame = [pc |-> "call", cells |-> cells,
                  field |-> DrawCells(makeField(Size(w, h)), cells)]

\* The call returns, the characters on the screen.
CallPrintField ==
  /\ frame.pc = "call"
  /\ frame' = [pc |-> "return", cells |-> frame.cells, field |-> frame.field,
               screen |-> printField(frame.field)]
  /\ UNCHANGED <<program, game>>

NextPrint == CallPrintField

SpecPrint == InitPrint /\ [][NextPrint]_vars

\* C18: printField of snake.cpp writes, for each column and each pair of
\* rows (top = row i, bottom = row i + 1, or no row when i + 1 is past the
\* last one), the empty block when neither cell is set, the upper half block
\* for the top alone, the lower half block for the bottom alone and the full
\* block for both; it writes one row of characters for every such pair.
C18_Blocks ==
  frame.pc = "return" =>
    LET w == frame.field.size.width
        h == frame.field.size.height
    IN /\ Len(frame.screen) = (h + 1) \div 2
       /\ \A r \in 1..Len(frame.screen) :
            /\ Len(frame.screen[r]) = w
            /\ \A x \in 0..(w - 1) :
                 LET i == 2 * (r - 1)
                     top == [x |-> x, y |-> i] \in frame.cells
                     bottom == [x |-> x, y |-> i + 1] \in frame.cells
                 IN frame.screen[r][x + 1] =
                      CASE ~top /\ ~bottom -> 32
                        [] top /\ ~bottom -> 9600
                        [] ~top /\ bottom -> 9604
                        [] top /\ bottom -> 9608

\* printField has written a field of odd height: its last row of characters
\* has an upper half block, and a row above it a lower half block.
C18_Witness ==
  /\ frame.pc = "return"
  /\ frame.field.size.height % 2 = 1
  /\ Len(frame.screen) >= 2
  /\ \E c \in 1..frame.field.size.width :
       /\ frame.screen[Len(frame.screen)][c] = 9600
       /\ frame.screen[1][c] = 9604

\* ------------------------------------- main's sleep, score after score

\* main() of either program at its first sleep_for, on main's own board.  The
\* interval depends on the score alone: the snake and the fruit are left as
\* reset made them.
InitInterval ==
  /\ program \in {"nsnake", "snake"}
  /\ board_size = Vector2(BoardSide, BoardSide)
  /\ alive = TRUE
  /\ score = 0
  /\ message = ""
  /\ snake = resetSnake(board_size)
  /\ fruit = Vector2(0, 0)
  /\ frame = [pc |-> "sleep", interval |-> tickInterval(score)]

\* A turn of main's loop whose doTick eats the fruit, up to the next
\* sleep_for: the score goes up by one while a cell of the board is left for
\* the snake to grow into.
EatAndSleep ==
  /\ score + TotalLength(snake) < BoardSide * BoardSide
  /\ score' = score + 1
  /\ frame' = [pc |-> "sleep", interval |-> tickInterval(score')]
  /\ UNCHANGED <<program, board_size, alive, snake, fruit, message>>

\* Death and a confirm key, up to the next sleep_for: reset puts the score
\* back to 0.
ResetAndSleep ==
  /\ score > 0
  /\ score' = 0
  /\ frame' = [pc |-> "sleep", interval |-> tickInterval(score')]
  /\ UNCHANGED <<program, board_size, alive, snake, fruit, message>>

NextInterval == EatAndSleep \/ ResetAndSleep

SpecInterval == InitInterval /\ [][NextInterval]_vars

\* C19 as stated: for every score of 0..397, the interval 10000 / (40 + score)
\* is positive and becomes shorter whenever the score increases.
C19_IntervalShortens ==
  /\ [][score' > score => frame'.interval < frame.interval]_vars
  /\ [](frame.interval > 0)

\* C19, amended: for every score of 0..397, the interval is positive, never
\* becomes longer when the score increases, and becomes shorter when the score
\* increases from 69 or less.
C19_IntervalNeverLonger ==
  /\ [][score' > score =>
          /\ frame'.interval <= frame.interval
          /\ score < 70 => frame'.interval < frame.interval]_vars
  /\ [](frame.interval > 0)

\* The sleep at the highest score of the board, the interval at its shortest.
C19_Witness ==
  /\ score = BoardSide * BoardSide - 3
  /\ frame.interval = 22

\* ----------------------------------------------- nsnake.cpp on any board

\* The Game of nsnake.cpp set up as main() does, on a board of any positive
\* width up to Width and any positive height up to Height.  reset returns
\* only if spawnFruit finds a cell for the fruit.
InitBoards ==
  /\ program = "nsnake"
  /\ board_size \in {Vector2(w, h) : w \in 1..Width, h \in 1..Height}
  /\ alive = TRUE
  /\ score = 0
  /\ message = ""
  /\ snake = resetSnake(board_size)
  /\ fruit \in spawnFruit(board_size, snake)
  /\ frame = MainLoop

NextBoards == NsnakeTick

SpecBoards == InitBoards /\ [][NextBoards]_vars

\* C20: on every board of positive width and height, in every state from the
\* first reset on, every cell traced by the snake's segments lies on the
\* board, so that Field::pixel is handed only indices inside the field's
\* buffer of board_size.x * board_size.y pixels.
C20_CellsOnBoard ==
  LET cells == drawSnake(snake)
  IN \A k \in 1..Len(cells) :
       /\ pointInsideArea(cells[k], board_size)
       /\ cells[k].y * board_size.x + cells[k].x \in 0..(board_size.x * board_size.y - 1)

\* ------------------------------------------- main's loop, render and tick

\* main() of either program up to the loop, the field made from the board.
InitRender ==
  /\ \/ /\ program = "nsnake"
        /\ board_size = Vector2(Width, Height)
        /\ snake = resetSnake(board_size)
        /\ fruit \in spawnFruit(board_size, snake)
        /\ frame = [pc |-> "loop", field |-> Field(board_size)]
     \/ /\ program = "snake"
        /\ board_size = Size(Width, Height)
        /\ snake = s_resetSnake(board_size)
        /\ fruit \in IndeterminatePoints(board_size)
        /\ frame = [pc |-> "loop", field |-> makeField(board_size)]
  /\ alive = TRUE
  /\ score = 0
  /\ message = ""

\* The top of the loop in nsnake.cpp: field.clear(), drawPoint(fruit, yellow),
\* drawSnake.  A write outside data_ is undefined: it is lost, or the program
\* stops there.
NsnakeRender ==
  /\ program = "nsnake"
  /\ frame.pc = "loop"
  /\ LET cleared == clear(frame.field)
         pixels == drawSnake(snake)
         inData(p) == pixelInData(cleared, p)
         withFruit == IF inData(fruit) THEN drawPoint(cleared, fruit, Color_yellow)
                      ELSE cleared
         drawn == drawWhite(withFruit, SelectSeq(pixels, inData))
     IN \/ frame' = [pc |-> "drawn", field |-> drawn]
        \/ /\ ~(inData(fruit) /\ \A k \in DOMAIN pixels : inData(pixels[k]))
           /\ frame' = [pc |-> "crash", field |-> frame.field]
  /\ UNCHANGED <<program, board_size, alive, score, snake, fruit, message>>

\* The top of the loop in snake.cpp: clearField, drawPixel(fruit, true),
\* drawSnake.  A write outside data is undefined: it is lost, or the program
\* stops there.
SnakeRender ==
  /\ program = "snake"
  /\ frame.pc = "loop"
  /\ LET cleared == clearField(frame.field)
         pixels == s_drawSnake(snake)
         inData(p) == drawPixelInData(cleared, p)
         withFruit == IF inData(fruit) THEN drawPixel(cleared, fruit, TRUE)
                      ELSE cleared
         drawn == drawPixels(withFruit, SelectSeq(pixels, inData))
     IN \/ frame' = [pc |-> "drawn", field |-> drawn]
        \/ /\ ~(inData(fruit) /\ \A k \in DOMAIN pixels : inData(pixels[k]))
           /\ frame' = [pc |-> "crash", field |-> frame.field]
  /\ UNCHANGED <<program, board_size, alive, score, snake, fruit, message>>

\* The rest of the turn in nsnake.cpp: getch, then doTick.
NsnakeTurn ==
  /\ program = "nsnake"
  /\ frame.pc = "drawn"
  /\ \E in \in Inputs : doTick(in)
  /\ frame' = [frame EXCEPT !.pc = "loop"]
  /\ UNCHANGED program

\* The rest of the turn in snake.cpp: getch, then doTick.
SnakeTurn ==
  /\ program = "snake"
  /\ frame.pc = "drawn"
  /\ \E in \in Inputs : s_doTick(in)
  /\ frame' = [frame EXCEPT !.pc = "loop"]
  /\ UNCHANGED program

NextRender == NsnakeRender \/ SnakeRender \/ NsnakeTurn \/ SnakeTurn

SpecRender == InitRender /\ [][NextRender]_vars

\* The cells of the board.
BoardCells == {Vector2(x, y) : x \in 0..(Width - 1), y \in 0..(Height - 1)}

\* The snake lies on the cell: pointCollidesWithSnake(cell, snake, true).
OnSnake(cell) ==
  IF program = "nsnake" THEN pointCollidesWithSnake(cell, snake, TRUE)
  ELSE s_pointCollidesWithSnake(cell, snake, TRUE)

\* The field drawn by nsnake.cpp: white on the snake, yellow on the fruit,
\* black elsewhere.
NsnakeDrawn ==
  \A cell \in BoardCells :
    pixel(frame.field, cell) =
      IF OnSnake(cell) THEN Color_white
      ELSE IF cell = fruit THEN Color_yellow
      ELSE Color_black

\* The field drawn by snake.cpp: set on the snake and on the fruit only.
SnakeDrawn ==
  \A cell \in BoardCells :
    getPixel(frame.field, cell) <=> (cell = fruit \/ OnSnake(cell))

\* C21: once main has cleared the field, drawn the fruit and drawn the snake,
\* a cell of the board is marked exactly when it is the fruit's cell or a cell
\* of the snake, the head's segment included; in nsnake.cpp the snake's cells
\* are white, the fruit's cell is yellow and every other cell is black.
C21_RenderedCells ==
  frame.pc = "drawn" =>
    IF program = "nsnake" THEN NsnakeDrawn ELSE SnakeDrawn

\* ------------------------------------------- spawnFruit, draw by draw

\* The board spawnFruit runs on, and the most segments of the snake on it.
SpawnWidth == 2
SpawnHeight == 2
SpawnSegments == 3

\* The indices spawnFruit draws from, the last one left out.
spawnIndices_short == 0..(SpawnWidth * SpawnHeight - 2)

\* The indices spawnFruit draws from: random(0, width * height - 1).
spawnIndices == 0..(SpawnWidth * SpawnHeight - 1)

\* The cell spawnFruit makes of the index i it has drawn.
spawnCandidate(i) ==
  IF program = "nsnake"
  THEN Vector2(i % board_size.x, i \div board_size.x)
  ELSE Point(i % board_size.width, i \div board_size.width)

\* spawnFruit's test of a cell: pointCollidesWithSnake(fruit, snake).
spawnCollides(cell) ==
  IF program = "nsnake"
  THEN pointCollidesWithSnake(cell, snake, TRUE)
  ELSE s_pointCollidesWithSnake(cell, snake, TRUE)

\* The cells of the board.
SpawnBoard ==
  {Vector2(x, y) : x \in 0..(SpawnWidth - 1), y \in 0..(SpawnHeight - 1)}

\* The snake's cells lie on the board, no cell twice.
FitsBoard(s) ==
  LET cells == Cells(s)
  IN /\ \A k \in 1..Len(cells) : cells[k] \in SpawnBoard
     /\ \A i, j \in 1..Len(cells) : i < j => cells[i] # cells[j]

\* The snakes of n segments spawnFruit is called on: as in the game, every
\* segment at least one cell long and turning off the one before it, the
\* cells on the board, no cell twice.
RECURSIVE SnakesOfSegments(_)
SnakesOfSegments(n) ==
  LET lengths == 1..(SpawnWidth + SpawnHeight)
  IN IF n = 1
     THEN {s \in {[head |-> h, segments |-> <<Segment(d, l)>>] :
                    h \in SpawnBoard, d \in Directions, l \in lengths} : FitsBoard(s)}
     ELSE {s \in {[head |-> t[1].head, segments |-> Append(t[1].segments, t[2])] :
                    t \in SnakesOfSegments(n - 1)
                          \X {Segment(d, l) : d \in Directions, l \in lengths}} :
             /\ s.segments[n].direction # s.segments[n - 1].direction
             /\ FitsBoard(s)}

\* spawnFruit is entered from a tick whose head has landed on the fruit.
InitSpawn ==
  /\ program \in {"nsnake", "snake"}
  /\ board_size = IF program = "nsnake"
                  THEN Vector2(SpawnWidth, SpawnHeight)
                  ELSE Size(SpawnWidth, SpawnHeight)
  /\ alive = TRUE
  /\ score = 1
  /\ message = ""
  /\ snake \in UNION {SnakesOfSegments(n) : n \in 1..SpawnSegments}
  /\ fruit = snake.head
  /\ frame = [pc |-> "while"]

\* One turn of spawnFruit's while (true) loop, the generator handing out i:
\* the index and the cell made of it are locals of the loop's body, gone when
\* the loop comes round again.
SpawnDraw(i) ==
  /\ frame.pc = "while"
  /\ IF spawnCollides(spawnCandidate(i))
     THEN UNCHANGED <<frame, fruit>>
     ELSE /\ frame' = [pc |-> "return"]
          /\ fruit' = spawnCandidate(i)
  /\ UNCHANGED <<program, board_size, alive, score, snake, message>>

NextSpawn == \E i \in spawnIndices : SpawnDraw(i)

\* The draw that ends the loop.
SpawnAccept == NextSpawn /\ frame'.pc = "return"

\* std::uniform_int_distribution gives every index the same chance at every
\* draw: the loop does not go on for ever turning draws down while there is
\* an index it would take.
SpecSpawn == InitSpawn /\ [][NextSpawn]_vars /\ WF_vars(SpawnAccept)

\* The cells of the board the snake is not on.
FreeCells == SpawnBoard \ CellSet(snake)

\* C15: spawnFruit stores only a cell of the board that pointCollidesWithSnake
\* reports free; while it runs every free cell of the board is a result it
\* can end on; if a cell is free it returns, the draws being fair; and if the
\* snake is on every cell of the board it never returns.
C15_SpawnFruit ==
  /\ [](frame.pc = "return" => (fruit \in FreeCells /\ ~spawnCollides(fruit)))
  /\ [](frame.pc # "return" =>
          \A c \in FreeCells :
            ENABLED (NextSpawn /\ fruit' = c /\ frame'.pc = "return"))
  /\ ((FreeCells # {}) ~> (frame.pc = "return"))
  /\ (FreeCells = {} => [](frame.pc # "return"))

\* spawnFruit has returned on a board it shares with a bent snake, the fruit
\* on a free cell that is not the first of the board.
C15_Witness ==
  /\ frame.pc = "return"
  /\ Len(snake.segments) >= 2
  /\ fruit \in FreeCells
  /\ fruit # spawnCandidate(0)

====
